---- MODULE Spec2Model ----
(***************************************************************************)
(* A model of the RayTracerMinecraft renderer: the slab test of a box      *)
(* (cube.rs), the recursive shader cast_ray with cast_shadow (main.rs),    *)
(* texture sampling (texture.rs), the data-parallel render and the input   *)
(* loop of main (main.rs).                                                 *)
(*                                                                         *)
(* Numbers.  An f32 is modelled as an exact value <<k, n, d>>: k = 0 is    *)
(* the rational n/d (d > 0, lowest terms), k = 1 is +inf, k = -1 is -inf   *)
(* and k = 2 is NaN.  Rounding is not modelled; the IEEE rules for         *)
(* infinities and NaN that the slab test relies on are.                    *)
(*                                                                         *)
(* Lengths.  ORIGIN_BIAS is the unit of length: a coordinate c of the      *)
(* model is the f32 value c * 1e-4.                                        *)
(***************************************************************************)
EXTENDS Integers, Sequences, FiniteSets, TLC

(***************************************************************************)
(* f32 arithmetic                                                          *)
(***************************************************************************)
Abs(a) == IF a < 0 THEN -a ELSE a

RECURSIVE GCD(_, _)
GCD(a, b) == IF b = 0 THEN a ELSE GCD(b, a % b)

Fin(n, d) ==
    LET s == IF d < 0 THEN -1 ELSE 1
        g == GCD(Abs(n), Abs(d))
    IN  <<0, (s * n) \div g, (s * d) \div g>>

F(n) == <<0, n, 1>>
PInf == <<1, 0, 1>>
NInf == <<-1, 0, 1>>
NaN  == <<2, 0, 1>>

IsNaN(a) == a[1] = 2
IsFin(a) == a[1] = 0
Sign(a) == IF a[1] = 0 THEN (IF a[2] > 0 THEN 1 ELSE IF a[2] < 0 THEN -1 ELSE 0) ELSE a[1]

\* a == b of f32: false as soon as one side is NaN
FEq(a, b) == ~IsNaN(a) /\ ~IsNaN(b) /\ a = b

\* a < b of f32: false as soon as one side is NaN
FLt(a, b) ==
    IF IsNaN(a) \/ IsNaN(b) THEN FALSE
    ELSE IF IsFin(a) /\ IsFin(b) THEN a[2] * b[3] < b[2] * a[3]
    ELSE a[1] < b[1]

FGt(a, b) == FLt(b, a)

FNeg(a) == IF IsNaN(a) THEN NaN ELSE <<-a[1], -a[2], a[3]>>

FAbs(a) == IF IsNaN(a) THEN NaN ELSE <<Abs(a[1]), Abs(a[2]), a[3]>>

FAdd(a, b) ==
    IF IsNaN(a) \/ IsNaN(b) THEN NaN
    ELSE IF IsFin(a) /\ IsFin(b) THEN Fin(a[2] * b[3] + b[2] * a[3], a[3] * b[3])
    ELSE IF IsFin(a) THEN b
    ELSE IF IsFin(b) THEN a
    ELSE IF a = b THEN a ELSE NaN

FSub(a, b) == FAdd(a, FNeg(b))

FMul(a, b) ==
    IF IsNaN(a) \/ IsNaN(b) THEN NaN
    ELSE IF IsFin(a) /\ IsFin(b) THEN Fin(a[2] * b[2], a[3] * b[3])
    ELSE IF Sign(a) = 0 \/ Sign(b) = 0 THEN NaN
    ELSE IF Sign(a) * Sign(b) > 0 THEN PInf ELSE NInf

\* 1.0 / a; the model has no negative zero, so 1.0 / 0.0 is +inf
FInv(a) ==
    IF IsNaN(a) THEN NaN
    ELSE IF ~IsFin(a) THEN F(0)
    ELSE IF a[2] = 0 THEN PInf
    ELSE Fin(a[3], a[2])

FDiv(a, b) == FMul(a, FInv(b))

\* f32::min and f32::max: when one argument is NaN the other is returned
FMin(a, b) == IF IsNaN(a) THEN b ELSE IF IsNaN(b) THEN a ELSE IF FLt(b, a) THEN b ELSE a
FMax(a, b) == IF IsNaN(a) THEN b ELSE IF IsNaN(b) THEN a ELSE IF FLt(a, b) THEN b ELSE a

(***************************************************************************)
(* Vec3                                                                    *)
(***************************************************************************)
V(x, y, z) == <<F(x), F(y), F(z)>>
Zeros == V(0, 0, 0)

VAdd(a, b) == <<FAdd(a[1], b[1]), FAdd(a[2], b[2]), FAdd(a[3], b[3])>>
VSub(a, b) == <<FSub(a[1], b[1]), FSub(a[2], b[2]), FSub(a[3], b[3])>>
VNeg(a) == <<FNeg(a[1]), FNeg(a[2]), FNeg(a[3])>>
VScale(a, s) == <<FMul(a[1], s), FMul(a[2], s), FMul(a[3], s)>>
ComponentMul(a, b) == <<FMul(a[1], b[1]), FMul(a[2], b[2]), FMul(a[3], b[3])>>
ComponentDiv(a, b) == <<FDiv(a[1], b[1]), FDiv(a[2], b[2]), FDiv(a[3], b[3])>>
Dot(a, b) == FAdd(FAdd(FMul(a[1], b[1]), FMul(a[2], b[2])), FMul(a[3], b[3]))

(***************************************************************************)
(* Directions.  A unit vector v/|v| is kept as the primitive integer       *)
(* vector d with the direction of v (v = m * d, m > 0 rational), and a     *)
(* length along a ray of direction d is kept as the exact multiple of |d|. *)
(* So Normalize(v) is d, Magnitude(v) is m, and the distance t that the    *)
(* slab test finds along d is comparable with Magnitude(v) as in the code. *)
(* The zero vector normalizes to NaN components, as 0.0 / 0.0 does.        *)
(***************************************************************************)
LCM(a, b) == (a * b) \div GCD(a, b)
CommonDen(v) == LCM(LCM(v[1][3], v[2][3]), v[3][3])
Cleared(v) == <<v[1][2] * (CommonDen(v) \div v[1][3]),
                v[2][2] * (CommonDen(v) \div v[2][3]),
                v[3][2] * (CommonDen(v) \div v[3][3])>>
Content(w) == GCD(GCD(Abs(w[1]), Abs(w[2])), Abs(w[3]))

Magnitude(v) == Fin(Content(Cleared(v)), CommonDen(v))

Normalize(v) ==
    LET w == Cleared(v)
        g == Content(w)
    IN  IF g = 0 THEN <<NaN, NaN, NaN>>
        ELSE V(w[1] \div g, w[2] \div g, w[3] \div g)

(***************************************************************************)
(* Color, Material, Cube, Intersect                                        *)
(***************************************************************************)
Color(r, g, b) == [r |-> r, g |-> g, b |-> b]
Black == Color(0, 0, 0)
SKYBOX_COLOR == Color(68, 142, 228)

\* Material::new; with_textures attaches the texture bank that cast_ray reads
Material(color, shininess, properties, refractive_index) ==
    [color |-> color, shininess |-> shininess, properties |-> properties,
     refractive_index |-> refractive_index, textures |-> <<>>]

WithTextures(m, textures) == [m EXCEPT !.textures = textures]

MaterialBlack == Material(Black, F(0), <<F(0), F(0), F(0), F(0)>>, F(1))

\* Cube::new: min and max are stored as given, one material for every face
CubeNew(min, max, material) == [min |-> min, max |-> max, material |-> material]

IntersectNew(point, normal, distance, material, object) ==
    [point |-> point, normal |-> normal, distance |-> distance,
     is_intersecting |-> TRUE, material |-> material, object |-> object]

IntersectEmpty ==
    [point |-> Zeros, normal |-> Zeros, distance |-> F(0),
     is_intersecting |-> FALSE, material |-> MaterialBlack,
     object |-> CubeNew(Zeros, Zeros, MaterialBlack)]

(***************************************************************************)
(* Cube::ray_intersect, the slab test                                      *)
(***************************************************************************)
SlabT1(cube, ray_origin, ray_direction) ==
    ComponentMul(VSub(cube.min, ray_origin), ComponentDiv(V(1, 1, 1), ray_direction))

SlabT2(cube, ray_origin, ray_direction) ==
    ComponentMul(VSub(cube.max, ray_origin), ComponentDiv(V(1, 1, 1), ray_direction))

SlabTmin(t1, t2) ==
    FMax(FMax(FMin(t1[1], t2[1]), FMin(t1[2], t2[2])), FMin(t1[3], t2[3]))

SlabTmax(t1, t2) ==
    FMin(FMin(FMax(t1[1], t2[1]), FMax(t1[2], t2[2])), FMax(t1[3], t2[3]))

\* mutant of HitNormal: the Y planes tested before the X planes
HitNormalYFirst(tmin, t1, t2) ==
    IF FEq(tmin, t1[2]) THEN V(0, -1, 0)
    ELSE IF FEq(tmin, t2[2]) THEN V(0, 1, 0)
    ELSE IF FEq(tmin, t1[1]) THEN V(-1, 0, 0)
    ELSE IF FEq(tmin, t2[1]) THEN V(1, 0, 0)
    ELSE IF FEq(tmin, t1[3]) THEN V(0, 0, -1)
    ELSE V(0, 0, 1)

HitNormal(tmin, t1, t2) ==
    IF FEq(tmin, t1[1]) THEN V(-1, 0, 0)
    ELSE IF FEq(tmin, t2[1]) THEN V(1, 0, 0)
    ELSE IF FEq(tmin, t1[2]) THEN V(0, -1, 0)
    ELSE IF FEq(tmin, t2[2]) THEN V(0, 1, 0)
    ELSE IF FEq(tmin, t1[3]) THEN V(0, 0, -1)
    ELSE V(0, 0, 1)

RayIntersect(cube, ray_origin, ray_direction) ==
    LET t1 == SlabT1(cube, ray_origin, ray_direction)
        t2 == SlabT2(cube, ray_origin, ray_direction)
        tmin == SlabTmin(t1, t2)
        tmax == SlabTmax(t1, t2)
    IN  IF FLt(tmax, tmin) \/ FLt(tmin, F(0)) THEN IntersectEmpty
        ELSE IntersectNew(VAdd(ray_origin, VScale(ray_direction, tmin)),
                          HitNormal(tmin, t1, t2), tmin, cube.material, cube)

(***************************************************************************)
(* Texture::get_color, the sampler that cast_ray calls                     *)
(***************************************************************************)
\* Texture { data, width, height }: row-major RGBA bytes
Texture(data, width, height) == [data |-> data, width |-> width, height |-> height]

\* `x as usize` of a finite or NaN f32: truncation toward zero, a negative
\* value and NaN become 0
AsUsize(a) ==
    CASE IsNaN(a) -> 0
      [] IsFin(a) /\ a[2] < 0 -> 0
      [] IsFin(a) /\ a[2] >= 0 -> a[2] \div a[3]

PixelX(texture, u) == AsUsize(FMul(u, F(texture.width))) % texture.width
PixelY(texture, v) == AsUsize(FMul(v, F(texture.height))) % texture.height

GetColor(texture, u, v) ==
    LET x == PixelX(texture, u)
        y == PixelY(texture, v)
        index == (y * texture.width + x) * 4
    IN  Color(texture.data[index + 1], texture.data[index + 2], texture.data[index + 3])

(***************************************************************************)
(* Face class and UV of a hit                                              *)
(***************************************************************************)
\* CubeFace of a hit: the face class named by the outward normal
FaceOf(normal) ==
    CASE normal = V(1, 0, 0) -> "PosX"
      [] normal = V(-1, 0, 0) -> "NegX"
      [] normal = V(0, 1, 0) -> "Top"
      [] normal = V(0, -1, 0) -> "Bottom"
      [] normal = V(0, 0, 1) -> "PosZ"
      [] normal = V(0, 0, -1) -> "NegZ"

\* Intersect::texture_coords: p' = (point - min) / (max - min), then per face
TextureCoords(intersect) ==
    LET p == ComponentDiv(VSub(intersect.point, intersect.object.min),
                          VSub(intersect.object.max, intersect.object.min))
        face == FaceOf(intersect.normal)
    IN  IF face \in {"Top", "Bottom"} THEN <<p[1], p[3]>>
        ELSE IF face \in {"PosX", "NegX"} THEN <<p[3], FSub(F(1), p[2])>>
        ELSE <<p[1], FSub(F(1), p[2])>>

(***************************************************************************)
(* main.rs: offset_origin, reflect, refract, cast_shadow                   *)
(***************************************************************************)
ORIGIN_BIAS == 1

Light(position, color, intensity) ==
    [position |-> position, color |-> color, intensity |-> intensity]

OffsetOrigin(intersect, direction) ==
    LET offset == VScale(intersect.normal, F(ORIGIN_BIAS))
    IN  IF FLt(Dot(direction, intersect.normal), F(0))
        THEN VSub(intersect.point, offset)
        ELSE VAdd(intersect.point, offset)

Reflect(incident, normal) ==
    VSub(incident, VScale(normal, FMul(F(2), Dot(incident, normal))))

\* cosi < 0.0, where cosi = -(incident.dot(normal).max(-1.0).min(1.0)): the
\* clamp keeps the sign of the dot product
RefractCosiNegative(incident, normal) == FGt(Dot(incident, normal), F(0))

RefractEta(incident, normal, eta_t) ==
    IF RefractCosiNegative(incident, normal) THEN FDiv(F(1), eta_t) ELSE eta_t

RefractNormal(incident, normal) ==
    IF RefractCosiNegative(incident, normal) THEN VNeg(normal) ELSE normal

\* n_cosi * n_cosi for the unit vector of direction `incident`
RefractCos2(incident, normal) ==
    FDiv(FMul(Dot(incident, normal), Dot(incident, normal)), Dot(incident, incident))

RefractK(incident, normal, eta_t) ==
    LET eta == RefractEta(incident, normal, eta_t)
    IN  FSub(F(1), FMul(FMul(eta, eta), FSub(F(1), RefractCos2(incident, normal))))

\* the square root of a rational square
SqrtNat(n) == CHOOSE r \in 0..n : r * r = n
FSqrt(a) == Fin(SqrtNat(a[2]), SqrtNat(a[3]))

\* The transmitted direction eta*I + (eta*n_cosi - sqrt(k))*N of the unit
\* vector I = incident/|incident|, scaled by |incident| and then reduced to
\* the primitive vector of its direction.
Refract(incident, normal, eta_t) ==
    LET eta == RefractEta(incident, normal, eta_t)
        n_normal == RefractNormal(incident, normal)
        k == RefractK(incident, normal, eta_t)
        n_cosi_len == FAbs(Dot(incident, normal))
        sqrt_k_len == FSqrt(FMul(k, Dot(incident, incident)))
    IN  IF FLt(k, F(0)) THEN Reflect(incident, n_normal)
        ELSE Normalize(VAdd(VScale(incident, eta),
                            VScale(n_normal, FSub(FMul(eta, n_cosi_len), sqrt_k_len))))

\* The scan of cast_shadow from the i-th box on: the first box that the
\* shadow ray hits nearer than the light decides the result and ends the
\* scan.  `consulted` counts the boxes whose ray_intersect was evaluated.
RECURSIVE ShadowScan(_, _, _, _, _)
ShadowScan(objects, i, shadow_ray_origin, light_dir, light_distance) ==
    IF i > Len(objects) THEN [shadow_intensity |-> F(0), consulted |-> Len(objects)]
    ELSE LET shadow_intersect == RayIntersect(objects[i], shadow_ray_origin, light_dir)
         IN  IF shadow_intersect.is_intersecting
                /\ FLt(shadow_intersect.distance, light_distance)
             THEN LET distance_ratio == FDiv(shadow_intersect.distance, light_distance)
                  IN  [shadow_intensity |->
                           FSub(F(1), FMin(FMul(distance_ratio, distance_ratio), F(1))),
                       consulted |-> i]
             ELSE ShadowScan(objects, i + 1, shadow_ray_origin, light_dir, light_distance)

\* mutant of CastShadow: the scan without its `break`, so the last occluder
\* of the list decides
RECURSIVE ShadowScanNoBreak(_, _, _, _, _, _)
ShadowScanNoBreak(objects, i, shadow_ray_origin, light_dir, light_distance, shadow_intensity) ==
    IF i > Len(objects) THEN [shadow_intensity |-> shadow_intensity, consulted |-> Len(objects)]
    ELSE LET shadow_intersect == RayIntersect(objects[i], shadow_ray_origin, light_dir)
             distance_ratio == FDiv(shadow_intersect.distance, light_distance)
         IN  IF shadow_intersect.is_intersecting
                /\ FLt(shadow_intersect.distance, light_distance)
             THEN ShadowScanNoBreak(objects, i + 1, shadow_ray_origin, light_dir, light_distance,
                                    FSub(F(1), FMin(FMul(distance_ratio, distance_ratio), F(1))))
             ELSE ShadowScanNoBreak(objects, i + 1, shadow_ray_origin, light_dir, light_distance,
                                    shadow_intensity)

CastShadowNoBreak(intersect, light, objects) ==
    LET light_dir == Normalize(VSub(light.position, intersect.point))
        light_distance == Magnitude(VSub(light.position, intersect.point))
        shadow_ray_origin == OffsetOrigin(intersect, light_dir)
    IN  ShadowScanNoBreak(objects, 1, shadow_ray_origin, light_dir, light_distance, F(0))

CastShadow(intersect, light, objects) ==
    LET light_dir == Normalize(VSub(light.position, intersect.point))
        light_distance == Magnitude(VSub(light.position, intersect.point))
        shadow_ray_origin == OffsetOrigin(intersect, light_dir)
    IN  ShadowScan(objects, 1, shadow_ray_origin, light_dir, light_distance)

(***************************************************************************)
(* main.rs: the steps of cast_ray                                          *)
(***************************************************************************)
MAX_DEPTH == 3

\* The nearest-hit scan from the i-th box on (lines 115-125)
RECURSIVE NearestScan(_, _, _, _, _, _)
NearestScan(objects, i, ray_origin, ray_direction, intersect, zbuffer) ==
    IF i > Len(objects) THEN intersect
    ELSE LET hit == RayIntersect(objects[i], ray_origin, ray_direction)
         IN  IF hit.is_intersecting /\ FLt(hit.distance, zbuffer)
             THEN NearestScan(objects, i + 1, ray_origin, ray_direction, hit, hit.distance)
             ELSE NearestScan(objects, i + 1, ray_origin, ray_direction, intersect, zbuffer)

\* mutant of NearestHit: `<=` in place of `<`, so the last of several boxes
\* at the smallest distance wins
RECURSIVE NearestScanLastTie(_, _, _, _, _, _)
NearestScanLastTie(objects, i, ray_origin, ray_direction, intersect, zbuffer) ==
    IF i > Len(objects) THEN intersect
    ELSE LET hit == RayIntersect(objects[i], ray_origin, ray_direction)
         IN  IF hit.is_intersecting /\ ~FLt(zbuffer, hit.distance)
             THEN NearestScanLastTie(objects, i + 1, ray_origin, ray_direction, hit, hit.distance)
             ELSE NearestScanLastTie(objects, i + 1, ray_origin, ray_direction, intersect, zbuffer)

NearestHitLastTie(objects, ray_origin, ray_direction) ==
    NearestScanLastTie(objects, 1, ray_origin, ray_direction, IntersectEmpty, PInf)

NearestHit(objects, ray_origin, ray_direction) ==
    NearestScan(objects, 1, ray_origin, ray_direction, IntersectEmpty, PInf)

\* texture_index of lines 134-137 (0-based, as in the code)
TextureIndex(face) == IF face = "Top" THEN 0 ELSE 1

\* textures[texture_index] panics when the index is not below the length
IndexPanics(intersect) ==
    /\ Len(intersect.material.textures) > 0
    /\ TextureIndex(FaceOf(intersect.normal)) >= Len(intersect.material.textures)

MaterialColor(intersect) ==
    IF Len(intersect.material.textures) > 0
    THEN LET uv == TextureCoords(intersect)
         IN  GetColor(intersect.material.textures[TextureIndex(FaceOf(intersect.normal)) + 1],
                      uv[1], uv[2])
    ELSE intersect.material.color

\* The operands of the final combination (line 186).  The f32 arithmetic on
\* colours is not evaluated: the colour of a shaded hit is kept as the record
\* of the values that arithmetic reads.
Shaded(material_color, intersect, ray_origin, light, shadow_intensity,
       reflect_color, refract_color) ==
    [material_color |-> material_color,
     properties |-> intersect.material.properties,
     shininess |-> intersect.material.shininess,
     normal |-> intersect.normal,
     light_dir |-> Normalize(VSub(light.position, intersect.point)),
     view_dir |-> Normalize(VSub(ray_origin, intersect.point)),
     light_color |-> light.color,
     light_intensity |-> FMul(light.intensity, FSub(F(1), shadow_intensity)),
     reflect_color |-> reflect_color,
     refract_color |-> refract_color]

\* mutant of DepthExceeded: the limit taken one call too late
DepthExceededLate(depth) == depth > MAX_DEPTH + 1

\* line 110
DepthExceeded(depth) == depth > MAX_DEPTH

(***************************************************************************)
(* State                                                                   *)
(***************************************************************************)
VARIABLES
    \* one call of cast_ray from outside, with its nested calls
    scene,        \* objects: the ordered list of boxes
    light,        \* the point light
    primary,      \* <<ray_origin, ray_direction>> of the primary call
    stack,        \* the activation records of cast_ray, the primary call first
    ray_result,   \* <<colour>> once the primary call has returned, <<>> before
    panicked,     \* TRUE once an index into the texture bank was out of range
    \* one call of Cube::ray_intersect
    cube_call,    \* <<cube, ray_origin, ray_direction>>, <<>> when no call is made
    cube_ret,     \* <<Intersect>> once the call has returned, <<>> before
    \* the calls of Texture::get_color at (u, v), (u + 1, v) and (u, v + 1)
    tex_call,     \* <<texture, u, v>>, <<>> when no call is made
    tex_ret,      \* <<colour, colour, colour>> once the calls have returned
    \* main and its loop
    pc,           \* the position of main, or of the caller of render
    objects,      \* the array of cubes handed to render
    camera,       \* [eye, center, up]
    orbited,      \* the number of calls of camera.orbit so far
    key_down,     \* what the last window.is_key_down returned
    framebuffer,  \* [width, height, buffer, current_color]
    window,       \* <<buffer>> last handed to update_with_buffer, <<>> before
    \* one call of render
    rpc,          \* "idle", "par" (inside for_each), "copy", "done"
    pixel_buffer, \* the temporary buffer of packed colours
    tasks,        \* the parts of the index range no worker has taken yet
    workers,      \* per worker: <<>> when idle, else [lo, hi, next]
    copy_index,   \* the index the copy loop is at
    writes,       \* per slot: the writes made to it in this call, as [worker, lo, hi]
    \* the first of two calls of render with the same arguments
    first_output, \* <<buffer>> the first call left in the framebuffer
    first_writes, \* <<writes>> of the first call
    \* one call of refract
    refract_call, \* <<incident, normal, eta_t>>, <<>> when no call is made
    refract_ret   \* <<[eta, n_cosi, n_normal, k, direction]>> once it has run

rayVars == <<scene, light, primary, stack, ray_result, panicked>>
cubeVars == <<cube_call, cube_ret>>
texVars == <<tex_call, tex_ret>>
mainVars == <<pc, objects, camera, orbited, key_down, framebuffer, window>>
renderVars == <<rpc, pixel_buffer, tasks, workers, copy_index, writes>>
twiceVars == <<first_output, first_writes>>
loopVars == <<mainVars, renderVars, twiceVars>>
refractVars == <<refract_call, refract_ret>>
vars == <<rayVars, cubeVars, texVars, loopVars, refractVars>>

\* the variables a shader step leaves alone
rayFixed == <<scene, light, primary, cubeVars, texVars, loopVars, refractVars>>

\* an activation record of cast_ray at its entry
Frame(ray_origin, ray_direction, depth) ==
    [ray_origin |-> ray_origin, ray_direction |-> ray_direction, depth |-> depth,
     pc |-> "start", intersect |-> IntersectEmpty, material_color |-> Black,
     shadow_intensity |-> F(0), consulted |-> 0,
     reflect_color |-> Black, refract_color |-> Black]

Top == stack[Len(stack)]
SetTop(frame) == [stack EXCEPT ![Len(stack)] = frame]

\* `return color` of the innermost call: the primary call ends the run, a
\* nested call hands the colour to the statement of its caller that made it
Return(color) ==
    IF Len(stack) = 1
    THEN /\ stack' = <<>>
         /\ ray_result' = <<color>>
    ELSE LET caller == stack[Len(stack) - 1]
             resumed == IF caller.pc = "wait_reflect"
                        THEN [caller EXCEPT !.reflect_color = color, !.pc = "refract"]
                        ELSE [caller EXCEPT !.refract_color = color, !.pc = "combine"]
         IN  /\ stack' = SubSeq(stack, 1, Len(stack) - 2) \o <<resumed>>
             /\ UNCHANGED ray_result

Running == stack /= <<>> /\ ~panicked

\* lines 110-112
CastRayDepthLimit ==
    /\ Running /\ Top.pc = "start"
    /\ DepthExceeded(Top.depth)
    /\ Return(SKYBOX_COLOR)
    /\ UNCHANGED <<rayFixed, panicked>>

\* lines 115-130, no box hit
CastRayMiss ==
    /\ Running /\ Top.pc = "start"
    /\ ~DepthExceeded(Top.depth)
    /\ ~NearestHit(scene, Top.ray_origin, Top.ray_direction).is_intersecting
    /\ Return(SKYBOX_COLOR)
    /\ UNCHANGED <<rayFixed, panicked>>

\* lines 115-130, a box hit
CastRayHit ==
    /\ Running /\ Top.pc = "start"
    /\ ~DepthExceeded(Top.depth)
    /\ LET intersect == NearestHit(scene, Top.ray_origin, Top.ray_direction)
       IN  /\ intersect.is_intersecting
           /\ stack' = SetTop([Top EXCEPT !.intersect = intersect, !.pc = "shade"])
    /\ UNCHANGED <<rayFixed, ray_result, panicked>>

\* line 139 with an index that is not in the bank
CastRayIndexPanic ==
    /\ Running /\ Top.pc = "shade"
    /\ IndexPanics(Top.intersect)
    /\ panicked' = TRUE
    /\ UNCHANGED <<rayFixed, stack, ray_result>>

\* lines 133-162
CastRayShade ==
    /\ Running /\ Top.pc = "shade"
    /\ ~IndexPanics(Top.intersect)
    /\ LET shadow == CastShadow(Top.intersect, light, scene)
       IN  stack' = SetTop([Top EXCEPT !.material_color = MaterialColor(Top.intersect),
                                       !.shadow_intensity = shadow.shadow_intensity,
                                       !.consulted = shadow.consulted,
                                       !.pc = "reflect"])
    /\ UNCHANGED <<rayFixed, ray_result, panicked>>

\* lines 166-172
CastRayReflect ==
    /\ Running /\ Top.pc = "reflect"
    /\ LET reflectivity == Top.intersect.material.properties[3]
           reflect_dir == Normalize(Reflect(Top.ray_direction, Top.intersect.normal))
           reflect_origin == OffsetOrigin(Top.intersect, reflect_dir)
       IN  IF FGt(reflectivity, F(0))
           THEN stack' = SetTop([Top EXCEPT !.pc = "wait_reflect"])
                         \o <<Frame(reflect_origin, reflect_dir, Top.depth + 1)>>
           ELSE stack' = SetTop([Top EXCEPT !.pc = "refract"])
    /\ UNCHANGED <<rayFixed, ray_result, panicked>>

\* lines 176-182
CastRayRefract ==
    /\ Running /\ Top.pc = "refract"
    /\ LET transparency == Top.intersect.material.properties[4]
           refract_dir == Refract(Top.ray_direction, Top.intersect.normal,
                                  Top.intersect.material.refractive_index)
           refract_origin == OffsetOrigin(Top.intersect, refract_dir)
       IN  IF FGt(transparency, F(0))
           THEN stack' = SetTop([Top EXCEPT !.pc = "wait_refract"])
                         \o <<Frame(refract_origin, refract_dir, Top.depth + 1)>>
           ELSE stack' = SetTop([Top EXCEPT !.pc = "combine"])
    /\ UNCHANGED <<rayFixed, ray_result, panicked>>

\* line 186
CastRayCombine ==
    /\ Running /\ Top.pc = "combine"
    /\ Return(Shaded(Top.material_color, Top.intersect, Top.ray_origin, light,
                     Top.shadow_intensity, Top.reflect_color, Top.refract_color))
    /\ UNCHANGED <<rayFixed, panicked>>

(***************************************************************************)
(* Inputs of the shader runs: the materials of main, boxes of a few units  *)
(* of length, rays and a light                                             *)
(***************************************************************************)
MaxObjects == 3

\* 2 x 2 images in place of the decoded asset files, every pixel different
GRASS_TOP_TEXTURE ==
    Texture(<<0, 200, 0, 255,  0, 210, 0, 255,  0, 220, 0, 255,  0, 230, 0, 255>>, 2, 2)
DIRT_SIDE_TEXTURE ==
    Texture(<<139, 69, 19, 255,  140, 70, 20, 255,  141, 71, 21, 255,  142, 72, 22, 255>>, 2, 2)

\* main.rs lines 319-324, 338-350, 360-365
GRASS ==
    WithTextures(Material(Color(0, 255, 0), F(50), <<Fin(8, 10), Fin(2, 10), F(0), F(0)>>, F(1)),
                 <<GRASS_TOP_TEXTURE, DIRT_SIDE_TEXTURE>>)
STONE == Material(Color(128, 128, 128), F(30), <<Fin(7, 10), Fin(1, 10), Fin(1, 10), F(0)>>, F(1))
TREEWOOD == Material(Color(139, 69, 19), F(30), <<Fin(7, 10), Fin(2, 10), F(0), F(0)>>, F(1))
GLASS == Material(Color(0, 0, 0), F(30), <<Fin(1, 10), Fin(1, 10), Fin(1, 10), Fin(5, 10)>>, F(1))
\* a material whose bank holds one texture
SINGLE ==
    WithTextures(Material(Color(0, 255, 0), F(50), <<Fin(8, 10), Fin(2, 10), F(0), F(0)>>, F(1)),
                 <<GRASS_TOP_TEXTURE>>)

Boxes ==
    { CubeNew(V(0, 0, 0), V(2, 2, 2), GLASS),
      CubeNew(V(0, 0, 6), V(2, 2, 8), GLASS),
      CubeNew(V(0, 4, 0), V(2, 6, 2), TREEWOOD),
      CubeNew(V(0, 8, 0), V(2, 10, 2), STONE),
      CubeNew(V(0, 0, 0), V(2, 2, 2), GRASS),
      CubeNew(V(4, 0, 0), V(6, 2, 2), SINGLE),
      \* min.z > max.z, as the boxes of main.rs lines 385 and 391
      CubeNew(V(0, 0, 8), V(2, 2, 6), TREEWOOD) }

Scenes ==
    { s \in UNION { [1..n -> Boxes] : n \in 0..MaxObjects } :
        \A i, j \in DOMAIN s : i /= j => s[i] /= s[j] }

\* <<ray_origin, ray_direction>>
Rays ==
    { <<V(1, 1, 4), V(0, 0, -1)>>,
      <<V(1, 1, 12), V(0, 0, -1)>>,
      <<V(-3, 6, 1), V(1, -1, 0)>>,
      <<V(1, -1, 1), V(-1, 1, 0)>>,
      <<V(9, 1, 1), V(-1, 0, 0)>>,
      <<V(5, 5, 1), V(0, -1, 0)>>,
      <<V(1, 1, 4), V(0, 1, 0)>> }

Lights == { Light(V(1, 12, 1), Color(255, 255, 255), F(2)) }

\* no call of ray_intersect under way
CubeIdle == cube_call = <<>> /\ cube_ret = <<>>
TexIdle == tex_call = <<>> /\ tex_ret = <<>>
RefractIdle == refract_call = <<>> /\ refract_ret = <<>>
LoopIdle ==
    /\ pc = "none" /\ objects = <<>> /\ camera = <<>> /\ orbited = 0
    /\ key_down = FALSE /\ framebuffer = <<>> /\ window = <<>>
    /\ rpc = "idle" /\ pixel_buffer = <<>> /\ tasks = {} /\ workers = <<>>
    /\ copy_index = 0 /\ writes = <<>>
    /\ first_output = <<>> /\ first_writes = <<>>

RayInit ==
    /\ scene \in Scenes
    /\ light \in Lights
    /\ primary \in Rays
    /\ stack = <<Frame(primary[1], primary[2], 0)>>
    /\ ray_result = <<>>
    /\ panicked = FALSE
    /\ CubeIdle /\ TexIdle /\ LoopIdle /\ RefractIdle

RayNext ==
    \/ CastRayDepthLimit
    \/ CastRayMiss
    \/ CastRayHit
    \/ CastRayIndexPanic
    \/ CastRayShade
    \/ CastRayReflect
    \/ CastRayRefract
    \/ CastRayCombine

SpecRay == RayInit /\ [][RayNext]_vars

(***************************************************************************)
(* Claims about cast_ray and cast_shadow, checked under SpecRay            *)
(***************************************************************************)
Frames == { stack[i] : i \in DOMAIN stack }
\* the frames that hold the result of the nearest-hit scan
Scanned == { f \in Frames : f.pc /= "start" }
\* the frames that hold the surface colour and the shadow
Lit == { f \in Frames : f.pc \notin {"start", "shade"} }

HitOf(i, ray_origin, ray_direction) == RayIntersect(scene[i], ray_origin, ray_direction)
HitSet(ray_origin, ray_direction) ==
    { i \in DOMAIN scene : HitOf(i, ray_origin, ray_direction).is_intersecting }

AllReflectAndRefract ==
    \A i \in DOMAIN scene :
        /\ FGt(scene[i].material.properties[3], F(0))
        /\ FGt(scene[i].material.properties[4], F(0))

\* C1 as stated: a chain of nested cast_ray calls holds at most MAX_DEPTH = 3
\* calls beyond the primary one.
C1_AtMostMaxDepthCalls == Len(stack) - 1 <= MAX_DEPTH

\* C1 amended: a chain of nested cast_ray calls holds at most MAX_DEPTH + 1 = 4
\* calls beyond the primary one; the call number i of the chain runs at depth
\* i, and a call at a depth above MAX_DEPTH neither scans the scene nor calls
\* cast_ray again (it is at its entry, from where it returns SKYBOX_COLOR).
C1_AtMostMaxDepthPlusOneCalls ==
    /\ Len(stack) - 1 <= MAX_DEPTH + 1
    /\ \A i \in DOMAIN stack :
          /\ stack[i].depth = i - 1
          /\ stack[i].depth > MAX_DEPTH => stack[i].pc = "start"
          /\ i < Len(stack) => stack[i].pc \in {"wait_reflect", "wait_refract"}

\* C1 witness: four nested calls beyond the primary one, in a scene whose
\* boxes all reflect and transmit.
C1_Witness ==
    /\ Len(stack) = MAX_DEPTH + 2
    /\ scene /= <<>>
    /\ AllReflectAndRefract

\* C2: the box that cast_ray shades is hit at the smallest distance among the
\* boxes the ray hits, that distance is not negative, it is the earliest such
\* box in insertion order, and cast_ray returns SKYBOX_COLOR when the primary
\* ray hits no box (so for every ray in an empty scene).
C2_NearestHit ==
    /\ \A f \in Scanned :
          \E j \in HitSet(f.ray_origin, f.ray_direction) :
              /\ f.intersect = HitOf(j, f.ray_origin, f.ray_direction)
              /\ ~FLt(f.intersect.distance, F(0))
              /\ \A i \in HitSet(f.ray_origin, f.ray_direction) :
                    /\ ~FLt(HitOf(i, f.ray_origin, f.ray_direction).distance,
                            f.intersect.distance)
                    /\ i < j => FLt(f.intersect.distance,
                                    HitOf(i, f.ray_origin, f.ray_direction).distance)
    /\ (ray_result /= <<>> /\ HitSet(primary[1], primary[2]) = {})
          => ray_result = <<SKYBOX_COLOR>>
    /\ (ray_result /= <<>> /\ scene = <<>>) => ray_result = <<SKYBOX_COLOR>>

\* C2 witness: the ray hits three boxes, the first of the list farther away
\* and the next two at the same smallest distance; the second is shaded.
C2_Witness ==
    \E f \in Scanned :
        /\ Cardinality(HitSet(f.ray_origin, f.ray_direction)) = 3
        /\ f.intersect = HitOf(2, f.ray_origin, f.ray_direction)
        /\ FLt(f.intersect.distance, HitOf(1, f.ray_origin, f.ray_direction).distance)
        /\ FEq(f.intersect.distance, HitOf(3, f.ray_origin, f.ray_direction).distance)

\* C5 as stated: the surface colour is sampled from textures[0] on the Top
\* face and from textures[1] on the other faces of a bank of two or more, from
\* the only texture on every face of a bank of one, with no access out of
\* range, and it is the base colour of a material without textures.
C5_TextureSelection ==
    /\ ~panicked
    /\ \A f \in Lit :
          LET bank == f.intersect.material.textures
              uv == TextureCoords(f.intersect)
              top == FaceOf(f.intersect.normal) = "Top"
          IN  /\ Len(bank) >= 2 =>
                    f.material_color = GetColor(bank[IF top THEN 1 ELSE 2], uv[1], uv[2])
              /\ Len(bank) = 1 => f.material_color = GetColor(bank[1], uv[1], uv[2])
              /\ Len(bank) = 0 => f.material_color = f.intersect.material.color

\* the boxes that the shadow ray of a hit reaches before the light
Occluders(intersect) ==
    LET to_light == VSub(light.position, intersect.point)
        origin == OffsetOrigin(intersect, Normalize(to_light))
    IN  { i \in DOMAIN scene :
            /\ RayIntersect(scene[i], origin, Normalize(to_light)).is_intersecting
            /\ FLt(RayIntersect(scene[i], origin, Normalize(to_light)).distance,
                   Magnitude(to_light)) }

OccluderRatio(intersect, i) ==
    LET to_light == VSub(light.position, intersect.point)
        origin == OffsetOrigin(intersect, Normalize(to_light))
    IN  FDiv(RayIntersect(scene[i], origin, Normalize(to_light)).distance,
             Magnitude(to_light))

First(S) == CHOOSE i \in S : \A j \in S : i <= j

\* C9: the shadow of a hit is decided by the first box in insertion order that
\* the shadow ray hits nearer than the light: shadow_intensity is
\* 1 - min((hit_t / light_distance)^2, 1) of that box, no box after it is
\* consulted, and shadow_intensity is 0 when no box occludes.
C9_FirstOccluder ==
    \A f \in Lit :
        IF Occluders(f.intersect) = {}
        THEN f.shadow_intensity = F(0) /\ f.consulted = Len(scene)
        ELSE LET first == First(Occluders(f.intersect))
                 ratio == OccluderRatio(f.intersect, first)
             IN  /\ f.shadow_intensity = FSub(F(1), FMin(FMul(ratio, ratio), F(1)))
                 /\ f.consulted = first

\* C9 witness: a box later in the list occludes nearer to the surface than
\* the first occluder, and the scan has ended at the first.
C9_Witness ==
    \E f \in Lit :
        /\ Occluders(f.intersect) /= {}
        /\ \E i \in Occluders(f.intersect) :
              /\ i > First(Occluders(f.intersect))
              /\ FLt(OccluderRatio(f.intersect, i),
                     OccluderRatio(f.intersect, First(Occluders(f.intersect))))
        /\ f.consulted = First(Occluders(f.intersect))

(***************************************************************************)
(* One call of Cube::ray_intersect on a box, an origin and a direction     *)
(***************************************************************************)
MaxCoord == 3

ProbeCubes ==
    { CubeNew(V(0, 0, 0), V(2, 2, 2), TREEWOOD),
      CubeNew(V(0, 1, 0), V(2, 2, 3), TREEWOOD),
      \* min.z > max.z, as the boxes of main.rs lines 385 and 391
      CubeNew(V(0, 0, 2), V(2, 2, 0), TREEWOOD) }

Components == -1..1
ProbeOrigins == { V(x, y, z) : x \in -1..MaxCoord, y \in -1..MaxCoord, z \in -1..MaxCoord }
ProbeDirections == { V(x, y, z) : x \in Components, y \in Components, z \in Components }
                       \ { Zeros }

RayIdle ==
    /\ scene = <<>> /\ light \in Lights /\ primary = <<>> /\ stack = <<>>
    /\ ray_result = <<>> /\ panicked = FALSE

CubeInit ==
    /\ cube_call \in { <<c, o, d>> : c \in ProbeCubes, o \in ProbeOrigins, d \in ProbeDirections }
    /\ cube_ret = <<>>
    /\ RayIdle /\ TexIdle /\ LoopIdle /\ RefractIdle

RayIntersectCall ==
    /\ cube_call /= <<>> /\ cube_ret = <<>>
    /\ cube_ret' = <<RayIntersect(cube_call[1], cube_call[2], cube_call[3])>>
    /\ UNCHANGED <<cube_call, rayVars, texVars, loopVars, refractVars>>

CubeNext == RayIntersectCall

SpecCube == CubeInit /\ [][CubeNext]_vars

(***************************************************************************)
(* Claims about Cube::ray_intersect, checked under SpecCube                *)
(***************************************************************************)
CubeHit == cube_ret /= <<>> /\ cube_ret[1].is_intersecting

\* the slab parameters of the six planes in the order X, Y, Z, the plane at
\* min before the plane at max, and the axis vector of each plane
PlaneParams ==
    LET t1 == SlabT1(cube_call[1], cube_call[2], cube_call[3])
        t2 == SlabT2(cube_call[1], cube_call[2], cube_call[3])
    IN  <<t1[1], t2[1], t1[2], t2[2], t1[3], t2[3]>>
PlaneNormals ==
    <<V(-1, 0, 0), V(1, 0, 0), V(0, -1, 0), V(0, 1, 0), V(0, 0, -1), V(0, 0, 1)>>

PlanesAtEnter == { k \in 1..6 : FEq(PlaneParams[k], cube_ret[1].distance) }

\* t_exit of the call, the smallest of the three far parameters
ProbeExit ==
    SlabTmax(SlabT1(cube_call[1], cube_call[2], cube_call[3]),
             SlabT2(cube_call[1], cube_call[2], cube_call[3]))

ValidBox(cube) == \A i \in 1..3 : FLt(cube.min[i], cube.max[i])

\* the ray goes against the normal: it enters through the reported plane
EntersThroughNormal == FLt(Dot(cube_call[3], cube_ret[1].normal), F(0))

\* C10 as stated, on the boxes with min < max on every axis: the normal of a
\* hit is the axis vector of a plane whose slab parameter is t_enter, the
\* first such plane in the order X, Y, Z, min before max, and the ray enters
\* through that plane, never leaves through it.
C10_EnteringFaceNormal ==
    (CubeHit /\ ValidBox(cube_call[1])) =>
        /\ PlanesAtEnter /= {}
        /\ cube_ret[1].normal = PlaneNormals[First(PlanesAtEnter)]
        /\ EntersThroughNormal

\* C10 amended: the normal of a hit is -e_i for the plane at min_i and +e_i
\* for the plane at max_i, of the first plane in the order X, Y, Z, min before
\* max, whose slab parameter equals t_enter; on a box with min < max on every
\* axis it is the outward normal of a face the ray enters through whenever
\* t_enter < t_exit, and only when t_enter = t_exit (the ray touches an edge
\* or a corner) can it be the normal of a plane the ray leaves through.
C10_FirstPlaneAtEnter ==
    CubeHit =>
        /\ PlanesAtEnter /= {}
        /\ cube_ret[1].normal = PlaneNormals[First(PlanesAtEnter)]
        /\ cube_ret[1].distance = SlabTmin(SlabT1(cube_call[1], cube_call[2], cube_call[3]),
                                           SlabT2(cube_call[1], cube_call[2], cube_call[3]))
        /\ (ValidBox(cube_call[1]) /\ FLt(cube_ret[1].distance, ProbeExit))
              => EntersThroughNormal

\* C10 witness: a hit on a box with min < max where two planes share t_enter,
\* the first of them in the fixed order is reported, and the ray leaves
\* through it.
C10_Witness ==
    /\ CubeHit /\ ValidBox(cube_call[1])
    /\ Cardinality(PlanesAtEnter) >= 2
    /\ cube_ret[1].normal = PlaneNormals[First(PlanesAtEnter)]
    /\ FGt(Dot(cube_call[3], cube_ret[1].normal), F(0))

(***************************************************************************)
(* Calls of Texture::get_color on a texture and a pair (u, v)              *)
(***************************************************************************)
MaxTexSize == 2
MaxUV == 8

\* a w x h image whose pixels all differ
TextureOfSize(w, h) ==
    Texture([i \in 1..(4 * w * h) |->
                IF (i - 1) % 4 = 3 THEN 255 ELSE 60 * ((i - 1) % 4) + (i - 1) \div 4],
            w, h)

\* u and v in quarters, from -MaxUV/4 to MaxUV/4
UVs == { Fin(k, 4) : k \in -MaxUV..MaxUV }

TexInit ==
    /\ tex_call \in { <<TextureOfSize(w, h), u, v>> :
                         w \in 1..MaxTexSize, h \in 1..MaxTexSize, u \in UVs, v \in UVs }
    /\ tex_ret = <<>>
    /\ RayIdle /\ CubeIdle /\ LoopIdle /\ RefractIdle

GetColorCalls ==
    /\ tex_call /= <<>> /\ tex_ret = <<>>
    /\ tex_ret' = <<GetColor(tex_call[1], tex_call[2], tex_call[3]),
                    GetColor(tex_call[1], FAdd(tex_call[2], F(1)), tex_call[3]),
                    GetColor(tex_call[1], tex_call[2], FAdd(tex_call[3], F(1)))>>
    /\ UNCHANGED <<tex_call, rayVars, cubeVars, loopVars, refractVars>>

TexNext == GetColorCalls

SpecTex == TexInit /\ [][TexNext]_vars

\* C6 as stated: for every texture and every u, v, negative ones included,
\* sampling at (u, v), at (u + 1, v) and at (u, v + 1) returns the same colour.
C6_SamplingWraps ==
    tex_ret /= <<>> => (tex_ret[1] = tex_ret[2] /\ tex_ret[1] = tex_ret[3])

(***************************************************************************)
(* render: the pixel buffer, the parallel for_each and the copy loop       *)
(***************************************************************************)
FbWidth == 2
FbHeight == 1
NumWorkers == 2

\* a packed colour whose number is known
Packed(n) == [packed |-> n]

FramebufferNew(width, height) ==
    [width |-> width, height |-> height,
     buffer |-> [i \in 1..(width * height) |-> Packed(0)],
     current_color |-> Packed(0)]

SetCurrentColor(fb, color) == [fb EXCEPT !.current_color = color]

\* slot y * width + x, kept at position y * width + x + 1 of the sequence
Point(fb, x, y) == [fb EXCEPT !.buffer[y * fb.width + x + 1] = fb.current_color]

CameraNew(eye, center, up) == [eye |-> eye, center |-> center, up |-> up]

\* a variant whose value also reads how many slots hold a colour already
PixelWordCounting(index, fb, cam, objs, lgt) ==
    [x |-> index % fb.width, y |-> index \div fb.width,
     width |-> fb.width, height |-> fb.height,
     camera |-> cam, objects |-> objs, light |-> lgt,
     depth |-> Cardinality({ i \in DOMAIN writes : writes[i] /= <<>> })]

\* the packed colour cast_ray(..).to_hex() of the primary ray of pixel index:
\* kept as the term of everything the closure reads, since the direction of
\* the ray involves tan(pi / 6) and the basis of the camera
PixelWord(index, fb, cam, objs, lgt) ==
    [x |-> index % fb.width, y |-> index \div fb.width,
     width |-> fb.width, height |-> fb.height,
     camera |-> cam, objects |-> objs, light |-> lgt, depth |-> 0]

\* a variant of the split whose halves share the middle slot
HalvesOverlapping(lo, hi) ==
    { <<lo, lo + (hi - lo) \div 2 + 1>>, <<lo + (hi - lo) \div 2, hi>> }

\* the parallel iterator splits the part lo..hi-1 at its middle
Halves(lo, hi) ==
    { <<lo, lo + (hi - lo) \div 2>>, <<lo + (hi - lo) \div 2, hi>> }

NumPixels == framebuffer.width * framebuffer.height
Calling == pc \in {"render", "first", "second"}

\* line 203 and the entry into for_each
RenderFork ==
    /\ Calling /\ rpc = "idle"
    /\ pixel_buffer' = [i \in 1..NumPixels |-> Packed(0)]
    /\ tasks' = { <<0, NumPixels>> }
    /\ workers' = [w \in 1..NumWorkers |-> <<>>]
    /\ writes' = [i \in 1..NumPixels |-> <<>>]
    /\ copy_index' = 0
    /\ rpc' = "par"
    /\ UNCHANGED <<mainVars, twiceVars, rayVars, cubeVars, texVars, refractVars>>

\* a part of two slots or more is split in two before any worker takes it
ParSplit ==
    /\ rpc = "par"
    /\ \E t \in tasks :
          /\ t[2] - t[1] >= 2
          /\ tasks' = (tasks \ {t}) \cup Halves(t[1], t[2])
    /\ UNCHANGED <<rpc, pixel_buffer, workers, copy_index, writes,
                   mainVars, twiceVars, rayVars, cubeVars, texVars, refractVars>>

\* an idle worker takes a part
ParTake ==
    /\ rpc = "par"
    /\ \E w \in 1..NumWorkers, t \in tasks :
          /\ workers[w] = <<>>
          /\ t[2] > t[1]
          /\ workers' = [workers EXCEPT ![w] = [lo |-> t[1], hi |-> t[2], next |-> t[1]]]
          /\ tasks' = tasks \ {t}
    /\ UNCHANGED <<rpc, pixel_buffer, copy_index, writes,
                   mainVars, twiceVars, rayVars, cubeVars, texVars, refractVars>>

\* lines 212-243: the closure on the next slot of the worker's part
ParPixel ==
    /\ rpc = "par"
    /\ \E w \in 1..NumWorkers :
          /\ workers[w] /= <<>>
          /\ LET index == workers[w].next
             IN /\ pixel_buffer' =
                      [pixel_buffer EXCEPT
                          ![index + 1] = PixelWord(index, framebuffer, camera, objects, light)]
                /\ writes' =
                      [writes EXCEPT
                          ![index + 1] = Append(@, [worker |-> w, lo |-> workers[w].lo,
                                                     hi |-> workers[w].hi])]
                /\ workers' =
                      [workers EXCEPT
                          ![w] = IF index + 1 < workers[w].hi
                                 THEN [workers[w] EXCEPT !.next = index + 1]
                                 ELSE <<>>]
    /\ UNCHANGED <<rpc, tasks, copy_index,
                   mainVars, twiceVars, rayVars, cubeVars, texVars, refractVars>>

\* a variant of the join that does not wait for the parts
ParJoinEarly ==
    /\ rpc = "par"
    /\ rpc' = "copy"
    /\ copy_index' = 0
    /\ UNCHANGED <<pixel_buffer, tasks, workers, writes,
                   mainVars, twiceVars, rayVars, cubeVars, texVars, refractVars>>

\* for_each returns once every part is done
ParJoin ==
    /\ rpc = "par"
    /\ tasks = {}
    /\ \A w \in 1..NumWorkers : workers[w] = <<>>
    /\ rpc' = "copy"
    /\ copy_index' = 0
    /\ UNCHANGED <<pixel_buffer, tasks, workers, writes,
                   mainVars, twiceVars, rayVars, cubeVars, texVars, refractVars>>

\* lines 250-255: one turn of the copy loop; render returns after the last
RenderCopy ==
    /\ rpc = "copy"
    /\ LET x == copy_index % framebuffer.width
           y == copy_index \div framebuffer.width
       IN framebuffer' =
             Point(SetCurrentColor(framebuffer, pixel_buffer[copy_index + 1]), x, y)
    /\ copy_index' = copy_index + 1
    /\ rpc' = IF copy_index + 1 = NumPixels THEN "done" ELSE "copy"
    /\ UNCHANGED <<pc, objects, camera, orbited, key_down, window,
                   pixel_buffer, tasks, workers, writes,
                   twiceVars, rayVars, cubeVars, texVars, refractVars>>

(***************************************************************************)
(* main: the scene, the camera and the loop                                *)
(***************************************************************************)
\* Texture::load of a file of the assets directory: a 1 x 1 image stands for
\* the decoded file
WOOD_PLANK_TEXTURE == Texture(<<170, 137, 85, 255>>, 1, 1)

WOOD ==
    WithTextures(Material(Color(170, 137, 85), F(30), <<Fin(7, 10), Fin(2, 10), F(0), F(0)>>, F(2)),
                 <<WOOD_PLANK_TEXTURE, WOOD_PLANK_TEXTURE>>)
LEAVES == Material(Color(34, 139, 34), F(20), <<Fin(6, 10), Fin(3, 10), F(0), F(0)>>, F(1))

\* a cube of the literal, its coordinates given in quarters of the scene's unit
Quarters(x0, y0, z0, x1, y1, z1, material) ==
    [min |-> V(2500 * x0, 2500 * y0, 2500 * z0),
     max |-> V(2500 * x1, 2500 * y1, 2500 * z1),
     material |-> material]

MainLight == Light(V(40000, 10000, 50000), Color(255, 255, 255), F(2))

MainObjects ==
    << Quarters(-16, -12, -16,  16, -8, 16, GRASS),
       Quarters(-8, -8, -8,   8, 0, -6, WOOD),
       Quarters(-8, -8, -8,  -6, 0, 8, WOOD),
       Quarters(6, -8, -8,   8, -6, 8, WOOD),
       Quarters(6, -8, -8,   8, 0, -2, WOOD),
       Quarters(6, -8, 6,    8, 0, 2, WOOD),
       Quarters(6, -2, -8,   8, 0, 8, WOOD),
       Quarters(6, -8, 2,    8, -2, -2, GLASS),
       Quarters(-8, -8, 6,  -2, 0, 8, WOOD),
       Quarters(2, -8, 6,    8, 0, 8, WOOD),
       Quarters(-2, -4, 6,   2, 0, 8, WOOD),
       Quarters(-10, 0, -10, 10, 2, 10, STONE),
       Quarters(-8, 2, -8,   8, 4, 8, STONE),
       Quarters(-6, 4, -6,   6, 6, 6, STONE),
       Quarters(-4, 6, -4,   4, 8, 4, STONE),
       Quarters(-14, -8, 12, -12, -6, 14, TREEWOOD),
       Quarters(-14, -6, 12, -12, -4, 14, TREEWOOD),
       Quarters(-14, -4, 12, -12, -2, 14, TREEWOOD),
       Quarters(-14, -2, 12, -12, 0, 14, TREEWOOD),
       Quarters(-16, 0, 10,  -10, 2, 16, LEAVES),
       Quarters(-15, 2, 11,  -11, 4, 15, LEAVES) >>

MainCamera == CameraNew(V(0, 0, 65000), V(0, 0, 0), V(0, 1, 0))

zoom_speed == F(5000)
MAX_ZOOM == F(10000)
MIN_ZOOM == F(100000)

\* a variant of the W branch that leaves eye.z alone instead of clamping it
ZoomInNoClamp(z) ==
    IF FGt(FSub(z, zoom_speed), MAX_ZOOM) THEN FSub(z, zoom_speed) ELSE z

\* lines 444-448
ZoomIn(z) ==
    IF FGt(FSub(z, zoom_speed), MAX_ZOOM) THEN FSub(z, zoom_speed) ELSE MAX_ZOOM

\* lines 453-457
ZoomOut(z) ==
    IF FLt(FAdd(z, zoom_speed), MIN_ZOOM) THEN FAdd(z, zoom_speed) ELSE MIN_ZOOM

\* camera.orbit(delta_yaw, delta_pitch), the deltas in units of rotation_speed:
\* the eye moves to another point around center.  Its new coordinates are
\* sines and cosines of multiples of pi / 50, which are not evaluated: the call
\* yields any point of a grid, with y kept by a yaw and x kept by a pitch.
MaxOrbits == 1
OrbitGrid == { F(0), F(65000) }
Orbit(cam, delta_yaw, delta_pitch) ==
    { [cam EXCEPT !.eye = <<x, y, z>>] :
         x \in (IF delta_yaw /= 0 THEN OrbitGrid ELSE {cam.eye[1]}),
         y \in (IF delta_pitch /= 0 THEN OrbitGrid ELSE {cam.eye[2]}),
         z \in OrbitGrid }

MainInit ==
    /\ pc = "is_open"
    /\ objects = MainObjects
    /\ light = MainLight
    /\ camera = MainCamera
    /\ orbited = 0
    /\ key_down = FALSE
    /\ framebuffer = FramebufferNew(FbWidth, FbHeight)
    /\ window = <<>>
    /\ rpc = "idle" /\ pixel_buffer = <<>> /\ tasks = {} /\ workers = <<>>
    /\ copy_index = 0 /\ writes = <<>>
    /\ first_output = <<>> /\ first_writes = <<>>
    /\ scene = <<>> /\ primary = <<>> /\ stack = <<>>
    /\ ray_result = <<>> /\ panicked = FALSE
    /\ CubeIdle /\ TexIdle /\ RefractIdle

mainFixed == <<objects, framebuffer, window, renderVars, twiceVars, rayVars, cubeVars, texVars, refractVars>>

\* line 435: the window is open, or it has been closed
MainIsOpen ==
    /\ pc = "is_open"
    /\ \E open \in BOOLEAN : pc' = IF open THEN "escape" ELSE "exit"
    /\ UNCHANGED <<camera, orbited, key_down, mainFixed>>

\* lines 437-439
MainEscape ==
    /\ pc = "escape"
    /\ \E down \in BOOLEAN :
          /\ key_down' = down
          /\ pc' = IF down THEN "exit" ELSE "key_w"
    /\ UNCHANGED <<camera, orbited, mainFixed>>

\* lines 443-449
MainKeyW ==
    /\ pc = "key_w"
    /\ \E down \in BOOLEAN :
          /\ key_down' = down
          /\ camera' = IF down THEN [camera EXCEPT !.eye[3] = ZoomIn(@)] ELSE camera
    /\ pc' = "key_s"
    /\ UNCHANGED <<orbited, mainFixed>>

\* lines 452-458
MainKeyS ==
    /\ pc = "key_s"
    /\ \E down \in BOOLEAN :
          /\ key_down' = down
          /\ camera' = IF down THEN [camera EXCEPT !.eye[3] = ZoomOut(@)] ELSE camera
    /\ pc' = "key_left"
    /\ UNCHANGED <<orbited, mainFixed>>

\* one of the four tests of lines 460-471
OrbitKey(at, delta_yaw, delta_pitch, then) ==
    /\ pc = at
    /\ \E down \in (IF orbited < MaxOrbits THEN BOOLEAN ELSE {FALSE}) :
          /\ key_down' = down
          /\ IF down
             THEN /\ camera' \in Orbit(camera, delta_yaw, delta_pitch)
                  /\ orbited' = orbited + 1
             ELSE UNCHANGED <<camera, orbited>>
    /\ pc' = then
    /\ UNCHANGED mainFixed

MainKeyLeft == OrbitKey("key_left", 1, 0, "key_right")
MainKeyRight == OrbitKey("key_right", -1, 0, "key_up")
MainKeyUp == OrbitKey("key_up", 0, -1, "key_down")
MainKeyDown == OrbitKey("key_down", 0, 1, "render")

\* the locals of the call of render are gone once its caller goes on
RenderReturned ==
    /\ rpc' = "idle" /\ pixel_buffer' = <<>> /\ tasks' = {} /\ workers' = <<>>
    /\ copy_index' = 0 /\ writes' = <<>>

\* lines 479-481: render has returned, the buffer is handed to the window
MainPresent ==
    /\ pc = "render" /\ rpc = "done"
    /\ window' = <<framebuffer.buffer>>
    /\ RenderReturned
    /\ pc' = "sleep"
    /\ UNCHANGED <<objects, camera, orbited, key_down, framebuffer,
                   twiceVars, rayVars, cubeVars, texVars, refractVars>>

\* line 484
MainSleep ==
    /\ pc = "sleep"
    /\ pc' = "is_open"
    /\ UNCHANGED <<camera, orbited, key_down, mainFixed>>

RenderNext ==
    \/ RenderFork
    \/ ParSplit
    \/ ParTake
    \/ ParPixel
    \/ ParJoin
    \/ RenderCopy

MainNext ==
    \/ MainIsOpen
    \/ MainEscape
    \/ MainKeyW
    \/ MainKeyS
    \/ MainKeyLeft
    \/ MainKeyRight
    \/ MainKeyUp
    \/ MainKeyDown
    \/ RenderNext
    \/ MainPresent
    \/ MainSleep

Spec == MainInit /\ [][MainNext]_vars

\* the workers of the pool run their parts to the end and render runs on the
\* thread of main, which goes on to update_with_buffer when render returns
SpecFair ==
    /\ MainInit
    /\ [][MainNext]_vars
    /\ WF_vars(RenderNext)
    /\ WF_vars(MainPresent)

(***************************************************************************)
(* render called twice with the same arguments                             *)
(***************************************************************************)
TwiceWidth == 2
TwiceHeight == 2
RenderScenes == { MainObjects, <<>> }
RenderCameras == { MainCamera }

TwiceInit ==
    /\ pc = "first"
    /\ objects \in RenderScenes
    /\ light = MainLight
    /\ camera \in RenderCameras
    /\ orbited = 0
    /\ key_down = FALSE
    /\ framebuffer = FramebufferNew(TwiceWidth, TwiceHeight)
    /\ window = <<>>
    /\ rpc = "idle" /\ pixel_buffer = <<>> /\ tasks = {} /\ workers = <<>>
    /\ copy_index = 0 /\ writes = <<>>
    /\ first_output = <<>> /\ first_writes = <<>>
    /\ scene = <<>> /\ primary = <<>> /\ stack = <<>>
    /\ ray_result = <<>> /\ panicked = FALSE
    /\ CubeIdle /\ TexIdle /\ RefractIdle

\* the first call has returned: its output is kept and render is called again
\* on a new framebuffer
RenderAgain ==
    /\ pc = "first" /\ rpc = "done"
    /\ first_output' = <<framebuffer.buffer>>
    /\ first_writes' = <<writes>>
    /\ framebuffer' = FramebufferNew(framebuffer.width, framebuffer.height)
    /\ RenderReturned
    /\ pc' = "second"
    /\ UNCHANGED <<objects, camera, orbited, key_down, window,
                   rayVars, cubeVars, texVars, refractVars>>

TwiceNext ==
    \/ RenderNext
    \/ RenderAgain

SpecRender == TwiceInit /\ [][TwiceNext]_vars

(***************************************************************************)
(* Properties of render                                                    *)
(***************************************************************************)
\* every part has been taken and every worker is through its part
ForEachOver ==
    \/ rpc \in {"copy", "done"}
    \/ rpc = "par" /\ tasks = {} /\ \A w \in 1..NumWorkers : workers[w] = <<>>

WritesMade == UNION { { <<i, k>> : k \in 1..Len(writes[i]) } : i \in DOMAIN writes }
WriteOf(e) == writes[e[1]][e[2]]

\* C3: during one call of render, whatever parts the index range is split in
\* and however the workers interleave, no slot of the pixel buffer is written
\* twice, every write is made inside the part its worker took, the parts of
\* different writes are the same part of the same worker or do not overlap,
\* and once for_each is over every slot has been written exactly once.
C3_EachSlotOneWriter ==
    rpc /= "idle" =>
        /\ \A i \in DOMAIN writes : Len(writes[i]) <= 1
        /\ \A e \in WritesMade :
              WriteOf(e).lo <= e[1] - 1 /\ e[1] - 1 < WriteOf(e).hi
        /\ \A e, f \in WritesMade :
              \/ WriteOf(e) = WriteOf(f)
              \/ WriteOf(e).hi <= WriteOf(f).lo
              \/ WriteOf(f).hi <= WriteOf(e).lo
        /\ ForEachOver => \A i \in DOMAIN writes : Len(writes[i]) = 1

\* for_each is over, the range was split in parts of different sizes and both
\* workers wrote
C3_Witness ==
    /\ pc = "first" /\ rpc = "copy"
    /\ \E e, f \in WritesMade :
          /\ WriteOf(e).worker /= WriteOf(f).worker
          /\ WriteOf(e).hi - WriteOf(e).lo = 1
          /\ WriteOf(f).hi - WriteOf(f).lo >= 2

\* C4: when render has been called twice with the same objects, camera, light
\* and framebuffer size, the second call leaves in the framebuffer exactly the
\* buffer the first call left, whatever parts and interleavings each call took.
C4_SameOutputTwice ==
    (pc = "second" /\ rpc = "done") => framebuffer.buffer = first_output[1]

\* the second call has returned after splitting or scheduling its parts
\* differently from the first, on a scene that has cubes
C4_Witness ==
    /\ pc = "second" /\ rpc = "done"
    /\ objects /= <<>>
    /\ writes /= first_writes[1]
    /\ \A i \in DOMAIN framebuffer.buffer : framebuffer.buffer[i] /= Packed(0)

(***************************************************************************)
(* Properties of main                                                      *)
(***************************************************************************)
\* C7 as stated: no cube with min_i >= max_i on some axis i is part of the
\* array handed to render.
C7_NoInvalidBoxRendered ==
    (pc = "render" /\ rpc /= "idle") => \A i \in DOMAIN objects : ValidBox(objects[i])

EyeZ == camera.eye[3]

\* what the claim says a W step and an S step make of eye.z
WStep(z) ==
    IF FGt(FSub(z, F(5000)), F(10000)) THEN FSub(z, F(5000)) ELSE F(10000)
SStep(z) ==
    IF FLt(FAdd(z, F(5000)), F(100000)) THEN FAdd(z, F(5000)) ELSE F(100000)

\* C8: as long as only W and S have acted on the camera, eye.z is at least
\* 1.0 and at most 10.0; a W step lowers eye.z by 0.5 unless that would not
\* be greater than 1.0, and then makes it 1.0; an S step raises it by 0.5
\* unless that would not be less than 10.0, and then makes it 10.0.
C8_ZoomClamped ==
    /\ [](orbited = 0 => (~FLt(EyeZ, F(10000)) /\ ~FGt(EyeZ, F(100000))))
    /\ [][/\ (pc = "key_w" /\ key_down') => camera'.eye[3] = WStep(EyeZ)
          /\ (pc = "key_s" /\ key_down') => camera'.eye[3] = SStep(EyeZ)]_vars

\* W has just been found down with eye.z at 1.0 already, no orbit before
C8_Witness ==
    /\ pc = "key_s" /\ key_down /\ orbited = 0
    /\ EyeZ = F(10000)
    /\ window /= <<>>

\* the slots of a buffer are the pixels of one frame computed with camera cam
FrameOf(buffer, cam) ==
    /\ Len(buffer) = NumPixels
    /\ \A i \in 1..NumPixels :
          buffer[i] = PixelWord(i - 1, framebuffer, cam, objects, light)

\* C11: in every iteration of the loop of main, the copy into the framebuffer
\* starts only when every part of for_each is done and all W*H slots of the
\* pixel buffer hold the pixels of the current camera; the buffer handed to
\* update_with_buffer is the framebuffer after the whole copy and holds W*H
\* pixels, all of the camera of that iteration; the camera does not change
\* from the call of render to the presentation; and a frame whose render has
\* been called is presented.
C11_FrameOrdered ==
    /\ [](rpc \in {"copy", "done"} =>
             /\ tasks = {} /\ \A w \in 1..NumWorkers : workers[w] = <<>>
             /\ FrameOf(pixel_buffer, camera))
    /\ [](pc = "sleep" =>
             /\ window = <<framebuffer.buffer>>
             /\ FrameOf(window[1], camera))
    /\ [](window /= <<>> =>
             /\ Len(window[1]) = NumPixels
             /\ \A i \in 1..NumPixels :
                   /\ window[1][i] /= Packed(0)
                   /\ window[1][i].camera = window[1][1].camera)
    /\ [][pc = "render" => camera' = camera]_vars
    /\ ((pc = "render") ~> (pc = "sleep"))

\* a frame has just been presented whose camera an orbit and a zoom made
\* different from the camera of the first frame
C11_Witness ==
    /\ pc = "sleep"
    /\ orbited = 1
    /\ camera.eye[3] = MIN_ZOOM
    /\ window /= <<>> /\ window[1][NumPixels].camera = camera

(***************************************************************************)
(* Calls of refract on a direction, a face normal and a refractive index   *)
(***************************************************************************)
MaxDirCoord == 2

\* n_cosi of lines 54 and 59, times the length of `incident`: cosi is
\* -(incident . normal), which the clamp to [-1, 1] leaves alone on unit vectors
RefractNCosi(incident, normal) ==
    IF RefractCosiNegative(incident, normal)
    THEN FNeg(FNeg(Dot(incident, normal)))
    ELSE FNeg(Dot(incident, normal))

\* the refractive indices of the materials of main, 0.0 left out
RefractiveIndices == { F(1), F(2), Fin(3, 10) }

FaceNormals ==
    { V(1, 0, 0), V(-1, 0, 0), V(0, 1, 0), V(0, -1, 0), V(0, 0, 1), V(0, 0, -1) }

\* the directions of rays, each kept as its primitive integer vector
Directions ==
    { d \in { V(x, y, z) : x, y, z \in -MaxDirCoord..MaxDirCoord } :
         d /= Zeros /\ Normalize(d) = d }

IsSquare(n) == \E r \in 0..n : r * r = n
RationalSquare(a) == IsFin(a) /\ a[2] >= 0 /\ IsSquare(a[2]) /\ IsSquare(a[3])

\* the calls whose result is a reflection or has rational components
RefractInputs ==
    { c \in Directions \X FaceNormals \X RefractiveIndices :
         \/ FLt(RefractK(c[1], c[2], c[3]), F(0))
         \/ RationalSquare(FMul(RefractK(c[1], c[2], c[3]), Dot(c[1], c[1]))) }

RefractInit ==
    /\ refract_call \in RefractInputs
    /\ refract_ret = <<>>
    /\ RayIdle /\ CubeIdle /\ TexIdle /\ LoopIdle

\* lines 47-73
RefractCall ==
    /\ refract_call /= <<>> /\ refract_ret = <<>>
    /\ LET incident == refract_call[1]
           normal == refract_call[2]
           eta_t == refract_call[3]
       IN refract_ret' =
             << [eta |-> RefractEta(incident, normal, eta_t),
                 n_cosi |-> RefractNCosi(incident, normal),
                 n_normal |-> RefractNormal(incident, normal),
                 k |-> RefractK(incident, normal, eta_t),
                 direction |-> Refract(incident, normal, eta_t)] >>
    /\ UNCHANGED <<refract_call, rayVars, cubeVars, texVars, loopVars>>

RefractNext == RefractCall

SpecRefract == RefractInit /\ [][RefractNext]_vars

\* C12 as stated: when cosi = -(I.N) is negative refract uses eta = eta_t,
\* the negated cosine and the flipped normal; otherwise it uses eta = 1/eta_t
\* and the normal unchanged; and when k < 0 it returns reflect(I, N_oriented).
C12_RefractBranches ==
    refract_ret /= <<>> =>
        LET incident == refract_call[1]
            normal == refract_call[2]
            eta_t == refract_call[3]
            cosi == FNeg(Dot(incident, normal))
            r == refract_ret[1]
        IN  /\ FLt(cosi, F(0)) =>
                  /\ r.eta = eta_t
                  /\ r.n_cosi = FNeg(cosi)
                  /\ r.n_normal = VNeg(normal)
            /\ ~FLt(cosi, F(0)) =>
                  /\ r.eta = FDiv(F(1), eta_t)
                  /\ r.n_cosi = cosi
                  /\ r.n_normal = normal
            /\ FLt(r.k, F(0)) => r.direction = Reflect(incident, r.n_normal)

====
